---- MODULE Spec2Model ----
(***************************************************************************)
(* Model of evaluate_query_disambiguation.py: the cluster selection        *)
(* oracles, the preview-truncating selector and the benchmark round loop.  *)
(* Cluster indices are Python indices (0-based); precisions are kept as    *)
(* exact fractions <<numerator, denominator>>.                             *)
(***************************************************************************)
EXTENDS Integers, Sequences, FiniteSets, TLC

\* ---- bounds ----
MaxLen == 2
MaxClusters == 2
MaxPreview == 1
MaxRounds == 2
MaxMethods == 2
NumQueries == 2

\* image ids: the oracle only asks whether an id is relevant, so two ids give
\* every pattern of relevant and irrelevant entries a cluster can have
IDs == {1, 2}

SeqsUpTo(S, n) == UNION { [1 .. k -> S] : k \in 0 .. n }

ClusterSet == SeqsUpTo(IDs, MaxLen)

\* thresholds as fractions <<num, den>>, den > 0
Thresholds == { <<0, 1>>, <<1, 2>>, <<2, 3>>, <<1, 1>>, <<3, 2>> }

VARIABLES
    \* oracle call
    query, clusters, min_precision, op, result,
    \* selector call
    num_preview, multiple, clustersB, resultB,
    \* benchmark run
    methods, rounds, queries, r, mi, pc, retrieved, precisions, metrics,
    pools, tasks, exclPrec, exclAgg, invoked, error, reported, workerFailed

oracleVars == <<query, clusters, min_precision, op, result>>
selectorVars == <<num_preview, multiple, clustersB, resultB>>
runVars == <<methods, rounds, queries, r, mi, pc, retrieved, precisions,
             metrics, pools, tasks, exclPrec, exclAgg, invoked, error,
             reported, workerFailed>>
vars == <<oracleVars, selectorVars, runVars>>

\* ---- Cluster Selection Oracles ----

\* sum(1 for id in c if id in query['relevant'])
RECURSIVE HitCount(_, _)
HitCount(c, relevant) ==
    IF c = <<>> THEN 0
    ELSE (IF Head(c) \in relevant THEN 1 ELSE 0) + HitCount(Tail(c), relevant)

\* a slip: the empty cluster silently scores 0
PrecisionZeroOnEmpty(q, c) ==
    IF Len(c) = 0
    THEN [raised |-> FALSE, num |-> 0, den |-> 1]
    ELSE [raised |-> FALSE, num |-> HitCount(c, q.relevant), den |-> Len(c)]

\* precision = hits / float(len(c)); float division by zero raises
Precision(q, c) ==
    IF Len(c) = 0
    THEN [raised |-> TRUE, num |-> 0, den |-> 0]
    ELSE [raised |-> FALSE, num |-> HitCount(c, q.relevant), den |-> Len(c)]

\* p >= t on fractions with positive denominators
FracGE(pn, pd, tn, td) == pn * td >= tn * pd
FracGT(pn, pd, tn, td) == pn * td > tn * pd

\* the loop over enumerate(clusters): selection is the dict, in insertion
\* order, as a sequence of [i, num, den]; a raise leaves the loop at once
RECURSIVE BuildSelection(_, _, _, _, _)
BuildSelection(q, cs, t, k, selection) ==
    IF k > Len(cs) THEN [raised |-> FALSE, value |-> selection]
    ELSE LET p == Precision(q, cs[k]) IN
         IF p.raised THEN [raised |-> TRUE, value |-> <<>>]
         ELSE IF FracGE(p.num, p.den, t[1], t[2])
              THEN BuildSelection(q, cs, t, k + 1,
                       Append(selection, [i |-> k - 1, num |-> p.num, den |-> p.den]))
              ELSE BuildSelection(q, cs, t, k + 1, selection)

\* a slip: ties come out in reverse order (ascending sort, then reversed)
RECURSIVE InsertDescUnstable(_, _)
InsertDescUnstable(s, x) ==
    IF s = <<>> THEN <<x>>
    ELSE IF FracGE(x.num, x.den, Head(s).num, Head(s).den)
         THEN <<x>> \o s
         ELSE <<Head(s)>> \o InsertDescUnstable(Tail(s), x)

\* insert x behind every entry whose key is >= its own (stable, descending)
RECURSIVE InsertDesc(_, _)
InsertDesc(s, x) ==
    IF s = <<>> THEN <<x>>
    ELSE IF FracGT(x.num, x.den, Head(s).num, Head(s).den)
         THEN <<x>> \o s
         ELSE <<Head(s)>> \o InsertDesc(Tail(s), x)

\* sorted(selection.keys(), key = lambda i: selection[i], reverse = True)
RECURSIVE SortedDesc(_, _)
SortedDesc(selection, acc) ==
    IF selection = <<>> THEN [k \in 1 .. Len(acc) |-> acc[k].i]
    ELSE SortedDesc(Tail(selection), InsertDesc(acc, Head(selection)))

\* a slip: strict comparison against the threshold
RECURSIVE BuildSelectionStrict(_, _, _, _, _)
BuildSelectionStrict(q, cs, t, k, selection) ==
    IF k > Len(cs) THEN [raised |-> FALSE, value |-> selection]
    ELSE LET p == Precision(q, cs[k]) IN
         IF p.raised THEN [raised |-> TRUE, value |-> <<>>]
         ELSE IF FracGT(p.num, p.den, t[1], t[2])
              THEN BuildSelectionStrict(q, cs, t, k + 1,
                       Append(selection, [i |-> k - 1, num |-> p.num, den |-> p.den]))
              ELSE BuildSelectionStrict(q, cs, t, k + 1, selection)

select_clusters_by_precision_strict(q, cs, t) ==
    LET sel == BuildSelectionStrict(q, cs, t, 1, <<>>) IN
    IF sel.raised THEN [raised |-> TRUE, value |-> <<>>]
    ELSE [raised |-> FALSE, value |-> SortedDesc(sel.value, <<>>)]

select_clusters_by_precision(q, cs, t) ==
    LET sel == BuildSelection(q, cs, t, 1, <<>>) IN
    IF sel.raised THEN [raised |-> TRUE, value |-> <<>>]
    ELSE [raised |-> FALSE, value |-> SortedDesc(sel.value, <<>>)]

\* a slip: takes the last entry of the ranking
select_best_cluster_last(q, cs) ==
    LET all == select_clusters_by_precision(q, cs, <<0, 1>>) IN
    IF all.raised THEN all
    ELSE [raised |-> FALSE,
          value |-> IF all.value = <<>> THEN <<>> ELSE <<all.value[Len(all.value)]>>]

\* select_clusters_by_precision(query, clusters, 0.0)[:1]
select_best_cluster(q, cs) ==
    LET all == select_clusters_by_precision(q, cs, <<0, 1>>) IN
    IF all.raised THEN all
    ELSE [raised |-> FALSE,
          value |-> IF all.value = <<>> THEN <<>> ELSE <<all.value[1]>>]

\* c[:n] (Python slice: a negative n counts from the end)
PySlice(c, n) ==
    IF n >= 0 THEN SubSeq(c, 1, IF n < Len(c) THEN n ELSE Len(c))
    ELSE SubSeq(c, 1, IF Len(c) + n > 0 THEN Len(c) + n ELSE 0)

\* [c[:args.num_preview] for c in clusters]
Previews(cs, n) == [k \in 1 .. Len(cs) |-> PySlice(cs[k], n)]

\* select_clusters_func = select_clusters_by_precision if args.multiple
\*                        else select_best_cluster   (min_precision = 0.5)
select_clusters_func(q, cs, mult) ==
    IF mult THEN select_clusters_by_precision(q, cs, <<1, 2>>)
    ELSE select_best_cluster(q, cs)

\* a slip: the oracle sees the whole cluster
select_clusters_untruncated(q, cs, n, mult) ==
    select_clusters_func(q, cs, mult)

\* select_clusters = lambda query, clusters: select_clusters_func(query, previews)
select_clusters(q, cs, n, mult) == select_clusters_func(q, Previews(cs, n), mult)

NoResult == [raised |-> FALSE, value |-> <<>>]

\* ---- state of a run that has not started (oracle-only specifications) ----
RunIdle ==
    /\ methods = <<>>
    /\ rounds = 0
    /\ queries = <<>>
    /\ r = 0
    /\ mi = 1
    /\ pc = "idle"
    /\ retrieved = {}
    /\ precisions = <<>>
    /\ metrics = <<>>
    /\ pools = 0
    /\ tasks = <<>>
    /\ exclPrec = <<>>
    /\ exclAgg = <<>>
    /\ invoked = <<>>
    /\ error = "none"
    /\ reported = FALSE
    /\ workerFailed = FALSE

\* ---- the oracles applied to bounded inputs ----
InitOracle ==
    /\ query \in [relevant : SUBSET IDs]
    /\ \E k \in 0 .. MaxClusters : clusters \in [1 .. k -> ClusterSet]
    /\ num_preview = 0
    /\ multiple = FALSE
    /\ min_precision = <<0, 1>>
    /\ op = "none"
    /\ result = NoResult
    /\ clustersB = <<>>
    /\ resultB = NoResult
    /\ RunIdle

CallByPrecision ==
    /\ op = "none"
    /\ \E t \in Thresholds :
         /\ min_precision' = t
         /\ result' = select_clusters_by_precision(query, clusters, t)
    /\ op' = "by_precision"
    /\ UNCHANGED <<query, clusters, selectorVars, runVars>>

CallBest ==
    /\ op = "none"
    /\ result' = select_best_cluster(query, clusters)
    /\ op' = "best"
    /\ UNCHANGED <<query, clusters, min_precision, selectorVars, runVars>>

CallSelectClusters ==
    /\ op = "none"
    /\ \E n \in 0 .. MaxPreview, mult \in BOOLEAN :
         /\ num_preview' = n
         /\ multiple' = mult
         /\ result' = select_clusters(query, clusters, n, mult)
    /\ op' = "selector"
    /\ UNCHANGED <<query, clusters, min_precision, clustersB, resultB, runVars>>

NextOracle == CallByPrecision \/ CallBest \/ CallSelectClusters

SpecOracle == InitOracle /\ [][NextOracle]_vars

\* ---- the selector applied to two cluster lists with the same previews ----
\* The second list replaces one cluster of the first by a cluster with the
\* same preview; lists that differ in several clusters are linked by a chain
\* of such replacements.
InitSelector ==
    /\ query \in [relevant : SUBSET IDs]
    /\ \E k \in 0 .. MaxClusters : clusters \in [1 .. k -> ClusterSet]
    /\ num_preview \in 0 .. MaxPreview
    /\ multiple \in BOOLEAN
    /\ min_precision = <<0, 1>>
    /\ op = "none"
    /\ result = NoResult
    /\ clustersB = <<>>
    /\ resultB = NoResult
    /\ RunIdle

CallSelectClustersTwice ==
    /\ op = "none"
    /\ \E k \in 1 .. Len(clusters), c \in ClusterSet :
         /\ PySlice(c, num_preview) = PySlice(clusters[k], num_preview)
         /\ clustersB' = [clusters EXCEPT ![k] = c]
         /\ resultB' = select_clusters(query, clustersB', num_preview, multiple)
    /\ result' = select_clusters(query, clusters, num_preview, multiple)
    /\ op' = "selector_pair"
    /\ UNCHANGED <<query, clusters, min_precision, num_preview, multiple, runVars>>

NextSelector == CallSelectClustersTwice

SpecSelector == InitSelector /\ [][NextSelector]_vars

\* ---- properties of the oracles ----
Range(s) == { s[k] : k \in 1 .. Len(s) }

\* number of positions of c that hold a relevant id
RelevantCount(c, rel) == Cardinality({ k \in 1 .. Len(c) : c[k] \in rel })

AllNonEmpty(cs) == \A k \in 1 .. Len(cs) : Len(cs[k]) > 0

\* precision of cluster a (1-based) of cs is >= that of cluster b
PrecAtLeast(cs, rel, a, b) ==
    RelevantCount(cs[a], rel) * Len(cs[b]) >= RelevantCount(cs[b], rel) * Len(cs[a])

\* C1: on non-empty clusters select_clusters_by_precision returns index i
\* exactly when the precision of cluster i is >= the threshold; every value
\* returned is a valid index and none is returned twice.
C1_SelectedIffPrecisionReachesThreshold ==
    (op = "by_precision" /\ AllNonEmpty(clusters)) =>
        /\ ~result.raised
        /\ Range(result.value) \subseteq 0 .. (Len(clusters) - 1)
        /\ Cardinality(Range(result.value)) = Len(result.value)
        /\ \A i \in 0 .. (Len(clusters) - 1) :
             (i \in Range(result.value)) <=>
                 (RelevantCount(clusters[i + 1], query.relevant) * min_precision[2]
                     >= min_precision[1] * Len(clusters[i + 1]))

\* a call that keeps a cluster sitting exactly on the threshold and drops the other
C1_Witness ==
    /\ op = "by_precision"
    /\ AllNonEmpty(clusters)
    /\ Len(clusters) = 2
    /\ min_precision = <<1, 2>>
    /\ Len(result.value) = 1
    /\ LET k == result.value[1] + 1
       IN  RelevantCount(clusters[k], query.relevant) * 2 = Len(clusters[k])

\* C2: on non-empty clusters select_best_cluster returns at most one index,
\* none exactly when there are no clusters, and otherwise the smallest index
\* among the clusters of maximal precision.
C2_BestIsFirstArgMax ==
    (op = "best" /\ AllNonEmpty(clusters)) =>
        /\ ~result.raised
        /\ Len(result.value) <= 1
        /\ (result.value = <<>>) <=> (clusters = <<>>)
        /\ clusters # <<>> =>
             LET best == { a \in 1 .. Len(clusters) :
                             \A b \in 1 .. Len(clusters) :
                                 PrecAtLeast(clusters, query.relevant, a, b) }
             IN  /\ (result.value[1] + 1) \in best
                 /\ \A a \in best : result.value[1] + 1 <= a

\* two different clusters share the best precision, which is not 0
C2_Witness ==
    /\ op = "best"
    /\ AllNonEmpty(clusters)
    /\ Len(clusters) = 2
    /\ clusters[1] # clusters[2]
    /\ result.value = <<0>>
    /\ PrecAtLeast(clusters, query.relevant, 2, 1)
    /\ RelevantCount(clusters[1], query.relevant) > 0

\* C3: the result of select_clusters_by_precision is ordered by precision
\* descending, and retained indices of equal precision keep ascending order.
C3_SortedByPrecisionStable ==
    (op = "by_precision" /\ ~result.raised) =>
        \A k, l \in 1 .. Len(result.value) :
            k < l =>
                LET a == result.value[k] + 1
                    b == result.value[l] + 1
                IN  /\ PrecAtLeast(clusters, query.relevant, a, b)
                    /\ PrecAtLeast(clusters, query.relevant, b, a) => a < b

\* two clusters tied at precision 1/2, both retained at threshold 1/2
C3_Witness ==
    /\ op = "by_precision"
    /\ ~result.raised
    /\ min_precision = <<1, 2>>
    /\ result.value = <<0, 1>>
    /\ clusters[1] # clusters[2]
    /\ \A k \in 1 .. 2 :
         RelevantCount(clusters[k], query.relevant) * 2 = Len(clusters[k])

\* the clusters the oracle is handed by the operation that was called
Seen == IF op = "selector" THEN Previews(clusters, num_preview) ELSE clusters

\* C6: an empty cluster handed to the oracle (also one emptied by the preview
\* truncation) makes the call raise and yield no selection, whatever the
\* threshold and the other clusters are.
C6_EmptyClusterRaises ==
    (op \in {"by_precision", "best", "selector"} /\ ~AllNonEmpty(Seen)) =>
        /\ result.raised
        /\ result.value = <<>>

\* a cluster emptied by the truncation, behind a cluster that qualifies
C6_Witness ==
    /\ op = "selector"
    /\ num_preview = 0
    /\ Len(clusters) >= 2
    /\ AllNonEmpty(clusters)
    /\ RelevantCount(clusters[1], query.relevant) = Len(clusters[1])
    /\ result.raised

\* first n entries of c, n a natural number
FirstN(c, n) == [k \in 1 .. (IF n < Len(c) THEN n ELSE Len(c)) |-> c[k]]

\* C8: the selector judges every cluster by its first num_preview entries:
\* two cluster lists that agree on those entries get the same selection, the
\* indices returned are positions of the list passed in, and a position is
\* selected according to the precision of its preview.
C8_SelectorSeesPreviewOnly ==
    (op = "selector_pair"
       /\ Len(clustersB) = Len(clusters)
       /\ \A k \in 1 .. Len(clusters) :
            FirstN(clusters[k], num_preview) = FirstN(clustersB[k], num_preview)) =>
        /\ result = resultB
        /\ Range(result.value) \subseteq 0 .. (Len(clusters) - 1)
        /\ (multiple /\ ~result.raised) =>
             \A i \in 0 .. (Len(clusters) - 1) :
                (i \in Range(result.value)) <=>
                    LET pv == FirstN(clusters[i + 1], num_preview)
                    IN  RelevantCount(pv, query.relevant) * 2 >= Len(pv)
        /\ (~multiple /\ ~result.raised /\ clusters # <<>>) =>
             /\ Len(result.value) = 1
             /\ \A b \in 1 .. Len(clusters) :
                  LET pa == FirstN(clusters[result.value[1] + 1], num_preview)
                      pb == FirstN(clusters[b], num_preview)
                  IN  RelevantCount(pa, query.relevant) * Len(pb)
                          >= RelevantCount(pb, query.relevant) * Len(pa)

\* the two lists differ behind the preview, where the whole clusters would
\* be selected differently
C8_Witness ==
    /\ op = "selector_pair"
    /\ num_preview = 1
    /\ Len(clusters) = 2
    /\ clusters # clustersB
    /\ ~result.raised
    /\ result.value # <<>>
    /\ select_clusters_func(query, clusters, multiple)
         # select_clusters_func(query, clustersB, multiple)

\* ---- Query Disambiguation Methods and the benchmark run ----

\* the registry, in registration order
METHODS == <<"Baseline", "CLUE", "Hard-Select", "AID">>

Registered == Range(METHODS)

\* names a command line can carry: the registered ones and one that is not
MethodNames == Registered \cup {"Bogus"}

\* nargs = '*': the names given (repeats allowed), or the registry when none
RequestedLists ==
    {METHODS} \cup UNION { [1 .. k -> MethodNames] : k \in 1 .. MaxMethods }

\* a query record: img_id and, optionally, ignore
QueryRecords == [img_id : IDs] \cup [img_id : IDs, ignore : SUBSET IDs]

QuerySets == UNION { [1 .. k -> QueryRecords] : k \in 0 .. NumQueries }

\* the query set of the run specification: the first has no ignore field,
\* the others ignore the id that is not their own
SampleQuery(k) ==
    IF k = 1 THEN [img_id |-> 1]
    ELSE [img_id |-> (k % 2) + 1, ignore |-> {((k + 1) % 2) + 1}]

SampleQuerySets == { [k \in 1 .. n |-> SampleQuery(k)] : n \in 0 .. NumQueries }

OracleIdle ==
    /\ query = [relevant |-> {}]
    /\ clusters = <<>>
    /\ min_precision = <<0, 1>>
    /\ op = "none"
    /\ result = NoResult
    /\ clustersB = <<>>
    /\ resultB = NoResult

RunStart ==
    /\ r = 0
    /\ mi = 1
    /\ pc = "start"
    /\ retrieved = {}
    /\ precisions = <<>>
    /\ metrics = <<>>
    /\ pools = 0
    /\ tasks = <<>>
    /\ exclPrec = <<>>
    /\ exclAgg = <<>>
    /\ invoked = <<>>
    /\ error = "none"
    /\ reported = FALSE
    /\ workerFailed = FALSE

Init ==
    /\ methods \in RequestedLists
    /\ rounds \in 0 .. MaxRounds
    /\ queries \in SampleQuerySets
    /\ num_preview = 10
    /\ multiple = FALSE
    /\ OracleIdle
    /\ RunStart

\* a slip: the ignore field is left out
PrecisionExcludeNoIgnore(qid) == {queries[qid].img_id}

\* set([queries[qid]['img_id']]) | (queries[qid]['ignore'] if 'ignore' in queries[qid] else set())
PrecisionExclude(qid) ==
    {queries[qid].img_id}
        \cup (IF "ignore" \in DOMAIN queries[qid] THEN queries[qid].ignore ELSE {})

\* set([query['img_id']]) | (query['ignore'] if 'ignore' in query else set())
AggregateExclude(q) ==
    {q.img_id} \cup (IF "ignore" \in DOMAIN q THEN q.ignore ELSE {})

\* d[key].append(x), after "if key not in d: d[key] = []" has run
DictAppend(d, key, x) ==
    [m \in DOMAIN d \cup {key} |->
        IF m = key THEN Append(IF key \in DOMAIN d THEN d[key] ELSE <<>>, x)
        ELSE d[m]]

\* if key not in d: d[key] = []
DictEnsure(d, key) ==
    [m \in DOMAIN d \cup {key} |-> IF m \in DOMAIN d THEN d[m] ELSE <<>>]

\* queries loaded; an empty query set prints a hint and exits
Start ==
    /\ pc = "start"
    /\ IF Len(queries) = 0 THEN pc' = "exited"
       ELSE IF rounds = 0 THEN pc' = "report"
       ELSE pc' = "invoke"
    /\ UNCHANGED <<methods, rounds, queries, r, mi, retrieved, precisions,
                   metrics, pools, tasks, exclPrec, exclAgg, invoked, error,
                   reported, workerFailed, oracleVars, selectorVars>>

\* retrieved = METHODS[method](features, queries, select_clusters, ...)
Invoke ==
    /\ pc = "invoke"
    /\ IF methods[mi] \notin Registered
       THEN /\ error' = "KeyError"
            /\ pc' = "failed"
            /\ UNCHANGED <<invoked, retrieved, tasks, exclPrec, exclAgg>>
       ELSE /\ invoked' = Append(invoked, <<r, methods[mi]>>)
            /\ \E returned \in BOOLEAN :
                 IF returned
                 THEN /\ retrieved' = DOMAIN queries
                      /\ pc' = "pool"
                      /\ error' = error
                 ELSE /\ retrieved' = {}
                      /\ pc' = "failed"
                      /\ error' = "MethodError"
            /\ tasks' = <<>>
            /\ exclPrec' = <<>>
            /\ exclAgg' = <<>>
    /\ UNCHANGED <<methods, rounds, queries, r, mi, precisions, metrics, pools,
                   reported, workerFailed, oracleVars, selectorVars>>

\* if method not in precisions: precisions[method] = [] ; with Pool() as p:
OpenPool ==
    /\ pc = "pool"
    /\ precisions' = DictEnsure(precisions, methods[mi])
    /\ pools' = pools + 1
    /\ pc' = "submit"
    /\ UNCHANGED <<methods, rounds, queries, r, mi, retrieved, metrics, tasks,
                   exclPrec, exclAgg, invoked, error, reported, workerFailed,
                   oracleVars, selectorVars>>

\* p.starmap(...): the argument tuples are built in the parent, one per
\* entry of retrieved, and handed to the workers
Submit ==
    /\ pc = "submit"
    /\ exclPrec' = [qid \in retrieved |-> PrecisionExclude(qid)]
    /\ tasks' = [qid \in retrieved |-> "pending"]
    /\ pc' = "score"
    /\ UNCHANGED <<methods, rounds, queries, r, mi, retrieved, precisions,
                   metrics, pools, exclAgg, invoked, error, reported,
                   workerFailed, oracleVars, selectorVars>>

\* a worker runs eval_metrics.precision_at_k for one query; it may raise
Score(qid) ==
    /\ pc = "score"
    /\ qid \in DOMAIN tasks
    /\ tasks[qid] = "pending"
    /\ \E ok \in BOOLEAN :
         /\ tasks' = [tasks EXCEPT ![qid] = IF ok THEN "ok" ELSE "failed"]
         /\ workerFailed' = (workerFailed \/ ~ok)
    /\ UNCHANGED <<methods, rounds, queries, r, mi, pc, retrieved, precisions,
                   metrics, pools, exclPrec, exclAgg, invoked, error, reported,
                   oracleVars, selectorVars>>

\* a slip: the failed results are dropped and the rest is averaged
CollectIgnoringFailures ==
    /\ pc = "score"
    /\ \A qid \in DOMAIN tasks : tasks[qid] # "pending"
    /\ precisions' = DictAppend(precisions, methods[mi], [round |-> r])
    /\ error' = error
    /\ pc' = "closing"
    /\ UNCHANGED <<methods, rounds, queries, r, mi, retrieved, metrics, pools,
                   tasks, exclPrec, exclAgg, invoked, reported, workerFailed,
                   oracleVars, selectorVars>>

\* starmap returns every result, or re-raises a worker's exception;
\* precisions[method].append(np.mean(list(...), axis = 0)) runs only on return
Collect ==
    /\ pc = "score"
    /\ \/ /\ \E qid \in DOMAIN tasks : tasks[qid] = "failed"
          /\ error' = "WorkerError"
          /\ precisions' = precisions
       \/ /\ \A qid \in DOMAIN tasks : tasks[qid] = "ok"
          /\ precisions' = DictAppend(precisions, methods[mi], [round |-> r])
          /\ error' = error
    /\ pc' = "closing"
    /\ UNCHANGED <<methods, rounds, queries, r, mi, retrieved, metrics, pools,
                   tasks, exclPrec, exclAgg, invoked, reported, workerFailed,
                   oracleVars, selectorVars>>

\* a slip: the pool is shut down on the normal path only
ClosePoolOnSuccessOnly ==
    /\ pc = "closing"
    /\ pools' = IF error = "none" THEN pools - 1 ELSE pools
    /\ pc' = IF error = "none" THEN "aggregate" ELSE "failed"
    /\ UNCHANGED <<methods, rounds, queries, r, mi, retrieved, precisions,
                   metrics, tasks, exclPrec, exclAgg, invoked, error, reported,
                   workerFailed, oracleVars, selectorVars>>

\* leaving the with block: Pool.__exit__ terminates the pool, then a pending
\* exception goes on to the caller
ClosePool ==
    /\ pc = "closing"
    /\ pools' = pools - 1
    /\ pc' = IF error = "none" THEN "aggregate" ELSE "failed"
    /\ UNCHANGED <<methods, rounds, queries, r, mi, retrieved, precisions,
                   metrics, tasks, exclPrec, exclAgg, invoked, error, reported,
                   workerFailed, oracleVars, selectorVars>>

\* a slip: the list of bundles is started afresh in every method-round
AggregateStartingAfresh ==
    /\ pc = "aggregate"
    /\ exclAgg' = [qid \in DOMAIN queries |-> AggregateExclude(queries[qid])]
    /\ metrics' = [m \in DOMAIN metrics \cup {methods[mi]} |->
                     IF m = methods[mi] THEN <<[round |-> r, prec |-> FALSE]>>
                     ELSE metrics[m]]
    /\ pc' = "inject"
    /\ UNCHANGED <<methods, rounds, queries, r, mi, retrieved, precisions,
                   pools, tasks, exclPrec, invoked, error, reported,
                   workerFailed, oracleVars, selectorVars>>

\* metrics[method].append(eval_metrics.avg_query_metrics({qid: {...}}))
Aggregate ==
    /\ pc = "aggregate"
    /\ exclAgg' = [qid \in DOMAIN queries |-> AggregateExclude(queries[qid])]
    /\ metrics' = DictAppend(metrics, methods[mi], [round |-> r, prec |-> FALSE])
    /\ pc' = "inject"
    /\ UNCHANGED <<methods, rounds, queries, r, mi, retrieved, precisions,
                   pools, tasks, exclPrec, invoked, error, reported,
                   workerFailed, oracleVars, selectorVars>>

\* metrics[method][-1]['P@k'] = precisions[method][-1][k - 1]; then the
\* loops go on to the next method, the next round or the report
Inject ==
    /\ pc = "inject"
    /\ metrics' = [metrics EXCEPT ![methods[mi]] =
                     [@ EXCEPT ![Len(@)] = [@ EXCEPT !.prec = TRUE]]]
    /\ IF mi < Len(methods)
       THEN /\ mi' = mi + 1
            /\ r' = r
            /\ pc' = "invoke"
       ELSE /\ mi' = 1
            /\ r' = r + 1
            /\ pc' = IF r + 1 < rounds THEN "invoke" ELSE "report"
    /\ UNCHANGED <<methods, rounds, queries, retrieved, precisions, pools,
                   tasks, exclPrec, exclAgg, invoked, error, reported,
                   workerFailed, oracleVars, selectorVars>>

\* print_metrics(mean over each method's bundles)
Report ==
    /\ pc = "report"
    /\ reported' = TRUE
    /\ pc' = "done"
    /\ UNCHANGED <<methods, rounds, queries, r, mi, retrieved, precisions,
                   metrics, pools, tasks, exclPrec, exclAgg, invoked, error,
                   workerFailed, oracleVars, selectorVars>>

Next ==
    \/ Start
    \/ Invoke
    \/ OpenPool
    \/ Submit
    \/ \E qid \in 1 .. NumQueries : Score(qid)
    \/ Collect
    \/ ClosePool
    \/ Aggregate
    \/ Inject
    \/ Report

Spec == Init /\ [][Next]_vars

\* the same run over every query set, one registered method, one round
InitExclude ==
    /\ methods \in { <<m>> : m \in Registered }
    /\ rounds = 1
    /\ queries \in QuerySets
    /\ num_preview = 10
    /\ multiple = FALSE
    /\ OracleIdle
    /\ RunStart

SpecExclude == InitExclude /\ [][Next]_vars

\* ---- properties of the run ----

\* how often name m occurs among the first n requested methods
Occurrences(m, n) == Cardinality({ k \in 1 .. n : methods[k] = m })

\* length of the list a dict holds for key m (0 when the key is absent)
ListLen(d, m) == IF m \in DOMAIN d THEN Len(d[m]) ELSE 0

\* C4: a requested name that is not registered is reported before any
\* registered method is invoked and before any scoring is done: when the
\* lookup of the unknown name fails, nothing has run yet.
C4_UnknownMethodFailsBeforeAnyWork ==
    error = "KeyError" =>
        /\ invoked = <<>>
        /\ precisions = <<>>
        /\ metrics = <<>>

\* C5: the exclude set handed to precision_at_k and the one handed to
\* avg_query_metrics are, for every query, its own img_id together with its
\* own ignore set (just the img_id when it has no ignore field).
C5_ExcludeSetsAgree ==
    /\ \A qid \in DOMAIN exclPrec :
          exclPrec[qid] =
              {queries[qid].img_id}
                  \cup (IF "ignore" \in DOMAIN queries[qid]
                        THEN queries[qid].ignore ELSE {})
    /\ \A qid \in DOMAIN exclAgg :
          exclAgg[qid] =
              {queries[qid].img_id}
                  \cup (IF "ignore" \in DOMAIN queries[qid]
                        THEN queries[qid].ignore ELSE {})
    /\ pc = "inject" =>
          /\ DOMAIN exclPrec = DOMAIN queries
          /\ DOMAIN exclAgg = DOMAIN queries
          /\ \A qid \in DOMAIN queries : exclPrec[qid] = exclAgg[qid]

\* both computations done for a query without ignore field and for one that
\* ignores an id other than its own
C5_Witness ==
    /\ pc = "inject"
    /\ Len(queries) = 2
    /\ "ignore" \notin DOMAIN queries[1]
    /\ "ignore" \in DOMAIN queries[2]
    /\ queries[2].ignore = {queries[1].img_id}
    /\ queries[2].img_id # queries[1].img_id
    /\ exclAgg[2] = {queries[1].img_id, queries[2].img_id}
    /\ exclPrec[1] = {queries[1].img_id}

\* method-rounds of name m that lie before the current one
CompletedOf(m) == r * Occurrences(m, Len(methods)) + Occurrences(m, mi - 1)

\* C7: once a worker has failed in a method-round, the run ends in failure:
\* that method-round records neither curve nor bundle, no further method is
\* invoked, and nothing is reported.
C7_WorkerFailureAbortsRun ==
    workerFailed =>
        /\ pc \in {"score", "closing", "failed"}
        /\ pc # "score" => error = "WorkerError"
        /\ ~reported
        /\ Len(invoked) = r * Len(methods) + mi
        /\ \A m \in Range(methods) :
             /\ ListLen(precisions, m) = CompletedOf(m)
             /\ ListLen(metrics, m) = CompletedOf(m)

\* a failure in the second round, after a whole round has been recorded
C7_Witness ==
    /\ workerFailed
    /\ pc = "failed"
    /\ r = 1
    /\ mi = 2
    /\ Len(methods) = 2
    /\ \E qid \in DOMAIN tasks : tasks[qid] = "ok"

\* C9: at most one pool exists; it exists only between the return of the
\* current method and the end of the scoring batch, so it is gone (also after
\* a worker raised) before the aggregate metrics are computed; a method starts
\* only when every earlier method-round has its curve and its bundle.
C9_SequentialRoundsOnePool ==
    /\ pools \in {0, 1}
    /\ (pools = 1) <=> (pc \in {"submit", "score", "closing"})
    /\ pools = 1 => Len(invoked) = r * Len(methods) + mi
    /\ pc = "invoke" =>
          /\ Len(invoked) = r * Len(methods) + mi - 1
          /\ \A m \in Range(methods) :
               /\ ListLen(precisions, m) = CompletedOf(m)
               /\ ListLen(metrics, m) = CompletedOf(m)
               /\ \A k \in 1 .. ListLen(metrics, m) : metrics[m][k].prec

\* a worker raised in a later method-round and the run has ended
C9_Witness ==
    /\ pc = "failed"
    /\ error = "WorkerError"
    /\ pools = 0
    /\ Len(invoked) >= 2

\* r rounds are complete: between two rounds, or after the last
AtRoundBoundary == (pc = "invoke" /\ mi = 1) \/ pc \in {"report", "done"}

\* C10 as stated: after r complete rounds every requested method has exactly
\* r curves and r bundles, whatever the list of requested names.
C10_ExactlyOnePerMethodPerRound ==
    AtRoundBoundary =>
        \A m \in Range(methods) :
            /\ ListLen(precisions, m) = r
            /\ ListLen(metrics, m) = r

\* C10 amended: after r complete rounds a method has r curves and r bundles
\* for each time its name occurs in the requested list, and was invoked that
\* often in each of those rounds; the report averages rounds times that many.
C10_OnePerOccurrencePerRound ==
    AtRoundBoundary =>
        /\ pc \in {"report", "done"} => r = rounds
        /\ \A m \in Range(methods) :
             /\ ListLen(precisions, m) = r * Occurrences(m, Len(methods))
             /\ ListLen(metrics, m) = r * Occurrences(m, Len(methods))
             /\ \A rr \in 0 .. (r - 1) :
                  Cardinality({ k \in 1 .. Len(invoked) : invoked[k] = <<rr, m>> })
                      = Occurrences(m, Len(methods))

\* a finished run of several rounds over a list that names two methods
C10_Witness ==
    /\ pc = "done"
    /\ reported
    /\ rounds = MaxRounds
    /\ Len(methods) = 2
    /\ methods[1] # methods[2]
    /\ ListLen(metrics, methods[1]) = MaxRounds
    /\ ListLen(metrics, methods[2]) = MaxRounds

====
